---- MODULE Spec2Model ----
(***************************************************************************)
(* Timestamp alignment engine (ingestion/core/alignment.py) and the        *)
(* aligned-data endpoint that serves it (app/routers/aligned_data.py,      *)
(* app/core/cache.py).                                                     *)
(*                                                                         *)
(* Calendar days are the integers 0..MaxDay (consecutive days, midnight-   *)
(* normalised).  A cell value is a positive integer token; Null stands for *)
(* None / NaN.  The aligners never inspect a value except for null-ness,   *)
(* so every persisted record carries its own distinct token.               *)
(*                                                                         *)
(* Specifications:                                                         *)
(*   Spec           one engine call at a time over the persisted files     *)
(*   SpecApi        GET /{ticker} through the cached wrapper               *)
(*   SpecCols       _dataset_for_col on its own                            *)
(*   SpecRepeat     engine calls repeated while the wall clock moves on    *)
(*   SpecMalformed  engine calls over files that cannot be parsed          *)
(*   SpecCollide    engine calls over datasets that share column names     *)
(*   SpecInterleave two engine calls interleaved step by step              *)
(*   SpecCache      calls of the cached wrapper interleaved at its await    *)
(***************************************************************************)
EXTENDS Integers, Sequences, FiniteSets, TLC

\* ---------------------------------------------------------------- bounds
MaxDay == 2
MaxEntries == 3
\* the endpoint: persisted entries, requests served, clock slack past one ttl
MaxApiEntries == 1
MaxCalls == 1
MaxSlack == 1
\* overlapping requests: calls of the cached wrapper
MaxFlights == 2

Days == 0..MaxDay
Null == 0

\* a record without its date field (d is None / "")
NoDate == <<>>

\* ------------------------------------------------------------ state
VARIABLES
    files,      \* persisted pipeline outputs of the ticker, one entry per dataset
    pc,         \* "idle" | "returned"
    call,       \* the last engine call: [fn, start, end]
    result,     \* the DataFrame the last engine call returned
    store,      \* the response cache _store: cache key -> [expires, value]
    now,        \* time.monotonic()
    request,    \* the arguments of the last request to GET /{ticker}
    response,   \* what that request got: a JSON body or an HTTPException
    loads,      \* loader invocations made while serving that request
    served,     \* requests served so far
    column,     \* the column name handed to _dataset_for_col
    category,   \* what _dataset_for_col returned for it ("" before the call)
    wallclock,  \* the calendar day datetime.now() falls on
    kept,       \* an engine call and the table it returned, kept by its caller
    running,    \* the engine calls in progress, one per thread, with their locals
    flights     \* the calls of the cached wrapper: where each stands, what it got

engine == <<pc, call, result>>
api == <<store, now, request, response, loads, served>>
classifier == <<column, category>>
clock == <<wallclock, kept>>
vars == <<files, pc, call, result, store, now, request, response, loads, served,
          column, category, wallclock, kept, running, flights>>

\* ------------------------------------------------------------ DataFrames
\* A DataFrame is [cols: Seq(column name), rows: Seq([date, v: column -> value])].
EmptyFrame == [cols |-> <<>>, rows |-> <<>>]

ColSet(df) == {df.cols[i] : i \in 1..Len(df.cols)}
DateSeq(df) == [i \in 1..Len(df.rows) |-> df.rows[i].date]
DateSet(df) == {df.rows[i].date : i \in 1..Len(df.rows)}

\* pandas DataFrame.empty: any axis of length 0
IsEmpty(df) == Len(df.cols) = 0 \/ Len(df.rows) = 0

SetMax(S) == CHOOSE m \in S : \A n \in S : n <= m
SetMin(S) == CHOOSE m \in S : \A n \in S : m <= n

RECURSIVE SortedSeq(_)
SortedSeq(S) ==
    IF S = {} THEN <<>> ELSE <<SetMin(S)>> \o SortedSeq(S \ {SetMin(S)})

\* df[~df.index.duplicated(keep="last")]: a row stays iff no later row has its date
RECURSIVE KeepLastFrom(_, _)
KeepLastFrom(rows, i) ==
    IF i > Len(rows) THEN <<>>
    ELSE (IF \E j \in (i + 1)..Len(rows) : rows[j].date = rows[i].date
          THEN <<>> ELSE <<rows[i]>>) \o KeepLastFrom(rows, i + 1)

DropDuplicatedKeepLast(df) == [df EXCEPT !.rows = KeepLastFrom(df.rows, 1)]

\* df.reindex(target): one row per target label, the row of df with that label
\* if there is one, all-null otherwise; labels of df not in target are dropped
Reindex(df, target) ==
    [cols |-> df.cols,
     rows |-> [k \in 1..Len(target) |->
        [date |-> target[k],
         v    |-> IF \E i \in 1..Len(df.rows) : df.rows[i].date = target[k]
                  THEN df.rows[CHOOSE i \in 1..Len(df.rows) :
                                   df.rows[i].date = target[k]].v
                  ELSE [c \in ColSet(df) |-> Null]]]]

\* (mutant) backward fill: a null cell takes the first non-null value below it
Bfill(df) ==
    [cols |-> df.cols,
     rows |-> [k \in 1..Len(df.rows) |->
        [date |-> df.rows[k].date,
         v    |-> [c \in ColSet(df) |->
                    LET seen == {j \in k..Len(df.rows) : df.rows[j].v[c] # Null}
                    IN  IF seen = {} THEN Null
                        ELSE df.rows[SetMin(seen)].v[c]]]]]

\* (mutant) whole rows are carried forward: a row without any value takes the
\* cells of the last row above it that has one
FfillRows(df) ==
    [cols |-> df.cols,
     rows |-> [k \in 1..Len(df.rows) |->
        [date |-> df.rows[k].date,
         v    |-> LET seen == {j \in 1..k : \E c \in ColSet(df) : df.rows[j].v[c] # Null}
                  IN  IF seen = {} THEN df.rows[k].v
                      ELSE df.rows[SetMax(seen)].v]]]

\* df.ffill(): per column, going down the rows, a null cell takes the last
\* non-null value above it
Ffill(df) ==
    [cols |-> df.cols,
     rows |-> [k \in 1..Len(df.rows) |->
        [date |-> df.rows[k].date,
         v    |-> [c \in ColSet(df) |->
                    LET seen == {j \in 1..k : df.rows[j].v[c] # Null}
                    IN  IF seen = {} THEN Null
                        ELSE df.rows[SetMax(seen)].v[c]]]]]

\* df.loc[mask] with mask = (index >= lo) & (index <= hi): keeps row order
RowsInRange(rows, lo, hi) ==
    LET InRange(r) == r.date >= lo /\ r.date <= hi
    IN  SelectSeq(rows, InRange)

\* (mutant) the upper end of the range is excluded
FilterRangeOpenEnd(df, lo, hi) == [df EXCEPT !.rows = RowsInRange(df.rows, lo, hi - 1)]

FilterRange(df, lo, hi) == [df EXCEPT !.rows = RowsInRange(df.rows, lo, hi)]

\* pd.DataFrame(index=idx): no columns
IndexFrame(idx) ==
    [cols |-> <<>>,
     rows |-> [k \in 1..Len(idx) |-> [date |-> idx[k], v |-> [c \in {} |-> Null]]]]

\* An exception raised inside the engine
ValueError == [raised |-> "ValueError"]
IsRaised(x) == "raised" \in DOMAIN x

\* left.join(right, how="left", rsuffix=suffix), right index unique.
\* A column name present on both sides is renamed on the right with the
\* suffix; with no suffix the join raises ValueError.
Overlap(left, right) == ColSet(left) \cap ColSet(right)
RightName(left, right, suffix, c) ==
    IF c \in Overlap(left, right) THEN c \o suffix ELSE c

Join(left, right, suffix) ==
    IF IsRaised(left) THEN left
    ELSE IF Overlap(left, right) # {} /\ suffix = "" THEN ValueError
    ELSE
      LET rcols == [i \in 1..Len(right.cols) |->
                       RightName(left, right, suffix, right.cols[i])]
          rrow(d) == IF d \in DateSet(right)
                     THEN right.rows[CHOOSE i \in 1..Len(right.rows) :
                                         right.rows[i].date = d].v
                     ELSE [c \in ColSet(right) |-> Null]
          renamed(d) == [n \in {rcols[i] : i \in 1..Len(rcols)} |->
                           rrow(d)[right.cols[CHOOSE i \in 1..Len(rcols) :
                                                  rcols[i] = n]]]
      IN  [cols |-> left.cols \o rcols,
           rows |-> [k \in 1..Len(left.rows) |->
              [date |-> left.rows[k].date,
               v    |-> left.rows[k].v @@ renamed(left.rows[k].date)]]]

\* ------------------------------------------------------------ persisted data
\* Sparsity order, index 1 = sparsest (the reference clock is searched in it)
SPARSITY_ORDER == <<"executives", "filings", "financials", "news", "prices">>

\* Insertion order of the datasets dict built by align and align_to_sparse_ref
DATASET_ORDER == <<"prices", "financials", "filings", "news", "executives">>

DatasetNames == {DATASET_ORDER[i] : i \in 1..Len(DATASET_ORDER)}

Rank(name) == CHOOSE i \in 1..Len(SPARSITY_ORDER) : SPARSITY_ORDER[i] = name

\* The value token of entry number i of a dataset's persisted file
Tok(name, i) == 10 * Rank(name) + i

\* pd.to_datetime(d).normalize(): a timestamp is <<day, time of day>>; the
\* normalised timestamp is the day at midnight, identified with the day
Normalize(ts) == ts[1]

\* --- the persisted records, built from a shape (day, optional field present)
FilingEntry(i, sh) ==
    [filed_date       |-> <<sh[1], 0>>,
     form_type        |-> IF sh[2] THEN Tok("filings", i) ELSE Null,
     filing_url       |-> Tok("filings", i),
     accession_number |-> Tok("filings", i)]

NewsArticle(i, sh) ==
    [published_at |-> <<sh[1], 1>>,
     title        |-> Tok("news", i),
     url          |-> Tok("news", i),
     publisher    |-> IF sh[2] THEN Tok("news", i) ELSE Null]

DerivedRow(sh) ==
    [year_end        |-> <<sh[1], 0>>,
     revenue_b       |-> Tok("financials", sh[1] + 1),
     revenue_yoy_pct |-> IF sh[2] THEN Tok("financials", sh[1] + 1) ELSE Null]

\* a derived row with further keys beside the two revenue columns
DerivedRowWith(sh, keys) ==
    [k \in {"year_end", "revenue_b", "revenue_yoy_pct"} \cup keys |->
        IF k \in keys THEN Tok("financials", sh[1] + 1) ELSE DerivedRow(sh)[k]]

\* the keys of the derived table in the order the file lists them
DERIVED_KEY_ORDER == <<"revenue_b", "revenue_yoy_pct", "news_url", "news_url_news">>
DerivedCols(f) ==
    LET Present(k) == k \in DOMAIN f[1]
    IN  SelectSeq(DERIVED_KEY_ORDER, Present)

PriceRow(d) ==
    [date |-> <<d, 0>>, close |-> Tok("prices", d + 1), volume |-> Tok("prices", d + 1)]

\* the p4 file: fetched_at and the officers; an officer's title holds "ceo" or not
ExecFile(sh) ==
    [fetched_at |-> <<sh[1], 1>>,
     executives |-> <<[name   |-> IF sh[2] THEN Tok("executives", 1) ELSE Null,
                       title  |-> Tok("executives", 2),
                       is_ceo |-> sh[3]]>>]
NoExecFile == [fetched_at |-> <<0, 0>>, executives |-> <<>>]
\* no pipeline has written anything for the ticker
NothingStored ==
    [executives |-> NoExecFile, filings |-> <<>>, financials |-> <<>>,
     news |-> <<>>, prices |-> <<>>]
\* a p4 file that has officers but no fetched_at key
UnstampedExecFile(sh) == [ExecFile(sh) EXCEPT !.fetched_at = NoDate]

\* --- malformed persisted data: an entry that cannot be parsed (broken JSON or
\* CSV, an unparseable date), alone or among well-formed entries
Bad == [malformed |-> TRUE]
IsBad(x) == "malformed" \in DOMAIN x
HasBad(f) == \E i \in 1..Len(f) : IsBad(f[i])
\* the exception the parsers raise on it
ParseError == [raised |-> "ParseError"]

\* ------------------------------------------------------------ loaders
\* load_prices has no try/except: a parse error leaves the loader
load_prices(f) ==
    IF f = <<>> THEN EmptyFrame
    ELSE IF HasBad(f) THEN ParseError
    ELSE [cols |-> <<"price_close", "price_volume">>,
          rows |-> [i \in 1..Len(f) |->
             [date |-> Normalize(f[i].date),
              v    |-> [c \in {"price_close", "price_volume"} |->
                          IF c = "price_close" THEN f[i].close ELSE f[i].volume]]]]

\* the other loaders catch every exception, log it and return pd.DataFrame()
\* pd.DataFrame(derived): one column per key of the file's "derived" table
load_financials(f) ==
    IF f = <<>> THEN EmptyFrame
    ELSE IF HasBad(f) THEN EmptyFrame
    ELSE [cols |-> DerivedCols(f),
          rows |-> [i \in 1..Len(f) |->
             [date |-> Normalize(f[i].year_end),
              v    |-> [c \in DOMAIN f[i] \ {"year_end"} |-> f[i][c]]]]]

RECURSIVE FilingRows(_)
FilingRows(f) ==
    IF f = <<>> THEN <<>>
    ELSE (IF Head(f).filed_date # NoDate
          THEN <<[date |-> Normalize(Head(f).filed_date),
                  v    |-> [c \in {"filing_type", "filing_url", "accession_number"} |->
                              IF c = "filing_type" THEN Head(f).form_type
                              ELSE IF c = "filing_url" THEN Head(f).filing_url
                              ELSE Head(f).accession_number]]>>
          ELSE <<>>) \o FilingRows(Tail(f))

load_filings(f) ==
    IF f = <<>> THEN EmptyFrame
    ELSE IF HasBad(f) THEN EmptyFrame
    ELSE IF FilingRows(f) = <<>> THEN EmptyFrame
    ELSE DropDuplicatedKeepLast(
            [cols |-> <<"filing_type", "filing_url", "accession_number">>,
             rows |-> FilingRows(f)])

RECURSIVE NewsRows(_)
NewsRows(f) ==
    IF f = <<>> THEN <<>>
    ELSE (IF Head(f).published_at # NoDate
          THEN <<[date |-> Normalize(Head(f).published_at),
                  v    |-> [c \in {"news_title", "news_url", "news_publisher"} |->
                              IF c = "news_title" THEN Head(f).title
                              ELSE IF c = "news_url" THEN Head(f).url
                              ELSE Head(f).publisher]]>>
          ELSE <<>>) \o NewsRows(Tail(f))

load_news(f) ==
    IF f = <<>> THEN EmptyFrame
    ELSE IF HasBad(f) THEN EmptyFrame
    ELSE IF NewsRows(f) = <<>> THEN EmptyFrame
    ELSE DropDuplicatedKeepLast(
            [cols |-> <<"news_title", "news_url", "news_publisher">>,
             rows |-> NewsRows(f)])

\* data.get("fetched_at", datetime.now().isoformat()): the day of the call
\* stands in for a missing fetched_at
load_executives(f) ==
    IF IsBad(f) THEN EmptyFrame
    ELSE
    LET execs == f.executives
        ceos  == {i \in 1..Len(execs) : execs[i].is_ceo}
    IN  IF execs = <<>> \/ ceos = {} THEN EmptyFrame
        ELSE LET ceo == execs[SetMin(ceos)]
             IN  [cols |-> <<"exec_ceo_name", "exec_ceo_title", "exec_count">>,
                  rows |-> <<[date |-> IF f.fetched_at = NoDate
                                       THEN Normalize(<<wallclock, 1>>)
                                       ELSE Normalize(f.fetched_at),
                              v    |-> [c \in {"exec_ceo_name", "exec_ceo_title", "exec_count"} |->
                                          IF c = "exec_ceo_name" THEN ceo.name
                                          ELSE IF c = "exec_ceo_title" THEN ceo.title
                                          ELSE Len(execs)]]>>]

\* the datasets dict of align / align_to_sparse_ref; a loader that raised
\* leaves its exception in place of a table
LoadAll(fs) ==
    [n \in DatasetNames |->
        CASE n = "prices"     -> load_prices(fs.prices)
          [] n = "financials" -> load_financials(fs.financials)
          [] n = "filings"    -> load_filings(fs.filings)
          [] n = "news"       -> load_news(fs.news)
          [] n = "executives" -> load_executives(fs.executives)]

\* the exception of the first loader that raised, while the dict is built
Raising(datasets) == {i \in 1..Len(DATASET_ORDER) : IsRaised(datasets[DATASET_ORDER[i]])}
FirstRaised(datasets) == datasets[DATASET_ORDER[SetMin(Raising(datasets))]]

\* ------------------------------------------------------------ align (dense)
\* (mutant) the calendar index stops the day before end
DateRangeOpenEnd(start, end) == [k \in 1..(end - start) |-> start + k - 1]

\* pd.date_range(start, end, freq="D"): every calendar day, empty if start > end
DateRange(start, end) == [k \in 1..(end - start + 1) |-> start + k - 1]

\* the loop of align: each non-empty dataset is reindexed onto the calendar
\* index, forward-filled and left-joined, in dict order
RECURSIVE DenseJoinFrom(_, _, _, _)
DenseJoinFrom(aligned, datasets, date_index, i) ==
    IF i > Len(DATASET_ORDER) THEN aligned
    ELSE LET df == datasets[DATASET_ORDER[i]]
         IN  IF IsEmpty(df)
             THEN DenseJoinFrom(aligned, datasets, date_index, i + 1)
             ELSE DenseJoinFrom(Join(aligned, Ffill(Reindex(df, date_index)), ""),
                                datasets, date_index, i + 1)

\* align once the datasets dict is built
align_datasets(datasets, start, end) ==
    LET date_index == DateRange(start, end)
        joined     == DenseJoinFrom(IndexFrame(date_index), datasets, date_index, 1)
    IN  IF Raising(datasets) # {} THEN FirstRaised(datasets)
        ELSE IF \A n \in DatasetNames : IsEmpty(datasets[n]) THEN EmptyFrame
        ELSE IF IsRaised(joined) THEN joined
        ELSE FilterRange(joined, start, end)

align(fs, start, end) == align_datasets(LoadAll(fs), start, end)

\* ------------------------------------------------------------ align_to_sparse_ref
\* (mutant) the reference is the non-empty dataset with the fewest points
RefNameByCount(datasets) ==
    LET cand == {i \in 1..Len(SPARSITY_ORDER) : ~IsEmpty(datasets[SPARSITY_ORDER[i]])}
        size(i) == Len(datasets[SPARSITY_ORDER[i]].rows)
    IN  IF cand = {} THEN "none"
        ELSE SPARSITY_ORDER[SetMin({i \in cand : \A j \in cand : size(i) <= size(j)})]

\* the first non-empty dataset in SPARSITY_ORDER, "none" if all are empty
RefName(datasets) ==
    LET cand == {i \in 1..Len(SPARSITY_ORDER) : ~IsEmpty(datasets[SPARSITY_ORDER[i]])}
    IN  IF cand = {} THEN "none" ELSE SPARSITY_ORDER[SetMin(cand)]

\* (mutant) direct reindex on the reference index, then ffill: no union step
OnRefDirect(df, ref_index) == Ffill(Reindex(df, ref_index))

\* one pass of the join loop for a non-reference dataset: union of its index
\* with the reference index, sorted; reindex; ffill; project on the reference
OnRef(df, ref_index) ==
    LET combined_index ==
            SortedSeq(DateSet(df) \cup {ref_index[k] : k \in 1..Len(ref_index)})
    IN  Reindex(Ffill(Reindex(df, combined_index)), ref_index)

RECURSIVE SparseJoinFrom(_, _, _, _, _)
SparseJoinFrom(aligned, datasets, ref_name, ref_index, i) ==
    IF i > Len(DATASET_ORDER) THEN aligned
    ELSE LET name == DATASET_ORDER[i]
             df   == datasets[name]
         IN  IF name = ref_name \/ IsEmpty(df)
             THEN SparseJoinFrom(aligned, datasets, ref_name, ref_index, i + 1)
             ELSE SparseJoinFrom(Join(aligned, OnRef(df, ref_index), "_" \o name),
                                 datasets, ref_name, ref_index, i + 1)

\* (mutant) the reference rows are forward-filled before they are joined
align_to_sparse_ref_filled(fs, start, end) ==
    LET datasets == LoadAll(fs)
        ref_name == RefName(datasets)
    IN  IF Raising(datasets) # {} THEN FirstRaised(datasets)
        ELSE IF ref_name = "none" THEN EmptyFrame
        ELSE LET ref_filtered == FilterRange(datasets[ref_name], start, end)
             IN  IF IsEmpty(ref_filtered) THEN EmptyFrame
                 ELSE SparseJoinFrom(
                        Join(IndexFrame(DateSeq(ref_filtered)), Ffill(ref_filtered), ""),
                        datasets, ref_name, DateSeq(ref_filtered), 1)

\* (mutant) when the reference has no point in the range, the next non-empty
\* dataset of the order that has one is promoted to reference
align_to_sparse_ref_promoting(datasets, start, end) ==
    LET cand == {i \in 1..Len(SPARSITY_ORDER) :
                    /\ ~IsEmpty(datasets[SPARSITY_ORDER[i]])
                    /\ ~IsEmpty(FilterRange(datasets[SPARSITY_ORDER[i]], start, end))}
        ref_name == IF cand = {} THEN "none" ELSE SPARSITY_ORDER[SetMin(cand)]
    IN  IF Raising(datasets) # {} THEN FirstRaised(datasets)
        ELSE IF ref_name = "none" THEN EmptyFrame
        ELSE LET ref_filtered == FilterRange(datasets[ref_name], start, end)
             IN  SparseJoinFrom(
                    Join(IndexFrame(DateSeq(ref_filtered)), ref_filtered, ""),
                    datasets, ref_name, DateSeq(ref_filtered), 1)

\* align_to_sparse_ref once the datasets dict is built
align_to_sparse_ref_datasets(datasets, start, end) ==
    LET ref_name == RefName(datasets)
    IN  IF Raising(datasets) # {} THEN FirstRaised(datasets)
        ELSE IF ref_name = "none" THEN EmptyFrame
        ELSE LET ref_filtered == FilterRange(datasets[ref_name], start, end)
             IN  IF IsEmpty(ref_filtered) THEN EmptyFrame
                 ELSE SparseJoinFrom(
                        Join(IndexFrame(DateSeq(ref_filtered)), ref_filtered, ""),
                        datasets, ref_name, DateSeq(ref_filtered), 1)

align_to_sparse_ref(fs, start, end) ==
    align_to_sparse_ref_datasets(LoadAll(fs), start, end)

\* ============================================================ the endpoint
\* ------------------------------------------------------------ column classifier
\* the characters of each column name: the names the loaders and the derived
\* metrics produce, and names around each declared prefix (the prefix itself,
\* one character more, one character less, the prefix not at the start)
Spelling ==
    [price_close |-> <<"p", "r", "i", "c", "e", "_", "c", "l", "o", "s", "e">>,
     price_volume |-> <<"p", "r", "i", "c", "e", "_", "v", "o", "l", "u", "m", "e">>,
     revenue_b |-> <<"r", "e", "v", "e", "n", "u", "e", "_", "b">>,
     revenue_yoy_pct |-> <<"r", "e", "v", "e", "n", "u", "e", "_", "y", "o", "y", "_", "p", "c", "t">>,
     net_margin_pct |-> <<"n", "e", "t", "_", "m", "a", "r", "g", "i", "n", "_", "p", "c", "t">>,
     gross_margin_pct |-> <<"g", "r", "o", "s", "s", "_", "m", "a", "r", "g", "i", "n", "_", "p", "c", "t">>,
     fcf_margin_pct |-> <<"f", "c", "f", "_", "m", "a", "r", "g", "i", "n", "_", "p", "c", "t">>,
     debt_equity |-> <<"d", "e", "b", "t", "_", "e", "q", "u", "i", "t", "y">>,
     filing_type |-> <<"f", "i", "l", "i", "n", "g", "_", "t", "y", "p", "e">>,
     filing_url |-> <<"f", "i", "l", "i", "n", "g", "_", "u", "r", "l">>,
     accession_number |-> <<"a", "c", "c", "e", "s", "s", "i", "o", "n", "_", "n", "u", "m", "b", "e", "r">>,
     news_title |-> <<"n", "e", "w", "s", "_", "t", "i", "t", "l", "e">>,
     news_url |-> <<"n", "e", "w", "s", "_", "u", "r", "l">>,
     news_publisher |-> <<"n", "e", "w", "s", "_", "p", "u", "b", "l", "i", "s", "h", "e", "r">>,
     exec_ceo_name |-> <<"e", "x", "e", "c", "_", "c", "e", "o", "_", "n", "a", "m", "e">>,
     exec_ceo_title |-> <<"e", "x", "e", "c", "_", "c", "e", "o", "_", "t", "i", "t", "l", "e">>,
     exec_count |-> <<"e", "x", "e", "c", "_", "c", "o", "u", "n", "t">>,
     price_ |-> <<"p", "r", "i", "c", "e", "_">>,
     price_x |-> <<"p", "r", "i", "c", "e", "_", "x">>,
     price |-> <<"p", "r", "i", "c", "e">>,
     x_price_ |-> <<"x", "_", "p", "r", "i", "c", "e", "_">>,
     revenue_ |-> <<"r", "e", "v", "e", "n", "u", "e", "_">>,
     revenue_x |-> <<"r", "e", "v", "e", "n", "u", "e", "_", "x">>,
     revenue |-> <<"r", "e", "v", "e", "n", "u", "e">>,
     x_revenue_ |-> <<"x", "_", "r", "e", "v", "e", "n", "u", "e", "_">>,
     net_margin |-> <<"n", "e", "t", "_", "m", "a", "r", "g", "i", "n">>,
     net_marginx |-> <<"n", "e", "t", "_", "m", "a", "r", "g", "i", "n", "x">>,
     net_margi |-> <<"n", "e", "t", "_", "m", "a", "r", "g", "i">>,
     x_net_margin |-> <<"x", "_", "n", "e", "t", "_", "m", "a", "r", "g", "i", "n">>,
     gross_margin |-> <<"g", "r", "o", "s", "s", "_", "m", "a", "r", "g", "i", "n">>,
     gross_marginx |-> <<"g", "r", "o", "s", "s", "_", "m", "a", "r", "g", "i", "n", "x">>,
     gross_margi |-> <<"g", "r", "o", "s", "s", "_", "m", "a", "r", "g", "i">>,
     x_gross_margin |-> <<"x", "_", "g", "r", "o", "s", "s", "_", "m", "a", "r", "g", "i", "n">>,
     fcf_margin |-> <<"f", "c", "f", "_", "m", "a", "r", "g", "i", "n">>,
     fcf_marginx |-> <<"f", "c", "f", "_", "m", "a", "r", "g", "i", "n", "x">>,
     fcf_margi |-> <<"f", "c", "f", "_", "m", "a", "r", "g", "i">>,
     x_fcf_margin |-> <<"x", "_", "f", "c", "f", "_", "m", "a", "r", "g", "i", "n">>,
     debt_equityx |-> <<"d", "e", "b", "t", "_", "e", "q", "u", "i", "t", "y", "x">>,
     debt_equit |-> <<"d", "e", "b", "t", "_", "e", "q", "u", "i", "t">>,
     x_debt_equity |-> <<"x", "_", "d", "e", "b", "t", "_", "e", "q", "u", "i", "t", "y">>,
     pe_ |-> <<"p", "e", "_">>,
     pe_x |-> <<"p", "e", "_", "x">>,
     pe |-> <<"p", "e">>,
     x_pe_ |-> <<"x", "_", "p", "e", "_">>,
     eps_ |-> <<"e", "p", "s", "_">>,
     eps_x |-> <<"e", "p", "s", "_", "x">>,
     eps |-> <<"e", "p", "s">>,
     x_eps_ |-> <<"x", "_", "e", "p", "s", "_">>,
     filing_ |-> <<"f", "i", "l", "i", "n", "g", "_">>,
     filing_x |-> <<"f", "i", "l", "i", "n", "g", "_", "x">>,
     filing |-> <<"f", "i", "l", "i", "n", "g">>,
     x_filing_ |-> <<"x", "_", "f", "i", "l", "i", "n", "g", "_">>,
     news_ |-> <<"n", "e", "w", "s", "_">>,
     news_x |-> <<"n", "e", "w", "s", "_", "x">>,
     news |-> <<"n", "e", "w", "s">>,
     x_news_ |-> <<"x", "_", "n", "e", "w", "s", "_">>,
     exec_ |-> <<"e", "x", "e", "c", "_">>,
     exec_x |-> <<"e", "x", "e", "c", "_", "x">>,
     exec |-> <<"e", "x", "e", "c">>,
     x_exec_ |-> <<"x", "_", "e", "x", "e", "c", "_">>,
     date |-> <<"d", "a", "t", "e">>,
     beta |-> <<"b", "e", "t", "a">>,
     roe_pct |-> <<"r", "o", "e", "_", "p", "c", "t">>,
     Price_close |-> <<"P", "r", "i", "c", "e", "_", "c", "l", "o", "s", "e">>,
     pe_ratio |-> <<"p", "e", "_", "r", "a", "t", "i", "o">>,
     eps_ttm |-> <<"e", "p", "s", "_", "t", "t", "m">>]

\* Column -> dataset mapping: dataset names and their column prefixes, in
\* declaration order
COL_PREFIXES ==
    <<[dataset |-> "prices",
       prefixes |-> {<<"p", "r", "i", "c", "e", "_">>}],
      [dataset |-> "financials",
       prefixes |-> {<<"r", "e", "v", "e", "n", "u", "e", "_">>,
                     <<"n", "e", "t", "_", "m", "a", "r", "g", "i", "n">>,
                     <<"g", "r", "o", "s", "s", "_", "m", "a", "r", "g", "i", "n">>,
                     <<"f", "c", "f", "_", "m", "a", "r", "g", "i", "n">>,
                     <<"d", "e", "b", "t", "_", "e", "q", "u", "i", "t", "y">>,
                     <<"p", "e", "_">>,
                     <<"e", "p", "s", "_">>}],
      [dataset |-> "filings",
       prefixes |-> {<<"f", "i", "l", "i", "n", "g", "_">>}],
      [dataset |-> "news",
       prefixes |-> {<<"n", "e", "w", "s", "_">>}],
      [dataset |-> "executives",
       prefixes |-> {<<"e", "x", "e", "c", "_">>}]>>

\* explicit full-column overrides: none are declared
COL_EXPLICIT == [c \in {} |-> "other"]

\* col.startswith(p)
StartsWith(col, p) ==
    /\ Len(p) <= Len(Spelling[col])
    /\ SubSeq(Spelling[col], 1, Len(p)) = p

\* p occurs somewhere in col
Contains(col, p) ==
    \E k \in 0..(Len(Spelling[col]) - Len(p)) :
        SubSeq(Spelling[col], k + 1, k + Len(p)) = p

\* (mutant) a prefix matches wherever it occurs in the name
_dataset_for_col_contains(col) ==
    IF col \in DOMAIN COL_EXPLICIT THEN COL_EXPLICIT[col]
    ELSE LET hits == {i \in 1..Len(COL_PREFIXES) :
                         \E p \in COL_PREFIXES[i].prefixes : Contains(col, p)}
         IN  IF hits = {} THEN "other" ELSE COL_PREFIXES[SetMin(hits)].dataset

_dataset_for_col(col) ==
    IF col \in DOMAIN COL_EXPLICIT THEN COL_EXPLICIT[col]
    ELSE LET hits == {i \in 1..Len(COL_PREFIXES) :
                         \E p \in COL_PREFIXES[i].prefixes : StartsWith(col, p)}
         IN  IF hits = {} THEN "other" ELSE COL_PREFIXES[SetMin(hits)].dataset

\* ------------------------------------------------------------ get_aligned_data
\* an optional date query parameter: <<>> when absent, <<d>> when given
NoParam == <<>>

\* date.today() on the day the requests are served
Today == MaxDay
\* timedelta(days=365)
DefaultSpan == 365
\* @cached(ttl=120)
TTL == 120

\* JSON null, as opposed to the NaN / None cells of a DataFrame
JsonNull == -1

\* (mutant) cells are emitted as they are
_serialize_as_is(val) == val

\* None and float NaN (both Null here) become JSON null; a value stays itself
_serialize(val) == IF val = Null THEN JsonNull ELSE val

\* the include parameter is a comma-separated string: a sequence of pieces,
\* each a dataset name with or without blanks around it
Piece(name, padded) == [text |-> name, blanks |-> padded]
DefaultInclude ==
    <<Piece("prices", FALSE), Piece("financials", FALSE), Piece("filings", FALSE),
      Piece("news", FALSE), Piece("executives", FALSE)>>
\* {d.strip() for d in include.split(",")}
RequestedDatasets(include) == {include[i].text : i \in 1..Len(include)}

HTTPException(code, detail) == [status |-> code, detail |-> detail]

KeepCols(cols, requested) ==
    LET Kept(col) == \/ _dataset_for_col(col) \in requested
                     \/ _dataset_for_col(col) = "other"
    IN  SelectSeq(cols, Kept)

\* df[keep_cols]
SelectCols(df, keep) ==
    [cols |-> keep,
     rows |-> [k \in 1..Len(df.rows) |->
        [date |-> df.rows[k].date,
         v    |-> [c \in {keep[i] : i \in 1..Len(keep)} |-> df.rows[k].v[c]]]]]

\* the body returned for an empty table
EmptyBody(ticker, start, end, mode) ==
    [status |-> 200, ticker |-> ticker, start |-> start, end |-> end, mode |-> mode,
     row_count |-> 0, columns |-> <<>>, rows |-> <<>>,
     meta |-> [message |-> "No ingested data found. Run the ingestion layer first.",
               hint    |-> <<"python -m ingestion.run_ingestion --ticker", ticker>>]]

\* the body returned for a non-empty table (label and type of the column
\* metadata are functions of the column alone and are left out)
TableBody(ticker, start, end, mode, requested, df) ==
    [status |-> 200, ticker |-> ticker, start |-> start, end |-> end, mode |-> mode,
     row_count |-> Len(df.rows),
     columns |-> [i \in 1..Len(df.cols) |->
        [key      |-> df.cols[i],
         dataset  |-> _dataset_for_col(df.cols[i]),
         nullable |-> \E k \in 1..Len(df.rows) : df.rows[k].v[df.cols[i]] = Null]],
     rows |-> [k \in 1..Len(df.rows) |->
        [date |-> df.rows[k].date,
         v    |-> [c \in ColSet(df) |-> _serialize(df.rows[k].v[c])]]],
     meta |-> [alignment_strategy |->
                  IF mode = "daily" THEN "daily calendar index with forward-fill"
                  ELSE "sparse reference clock (sparsest available dataset)",
               datasets_requested |-> requested,
               datasets_present |->
                  {_dataset_for_col(df.cols[i]) : i \in 1..Len(df.cols)} \ {"other"}]]

\* ticker.upper(), on the spellings a request can carry
Upper == [AAPL |-> "AAPL", aapl |-> "AAPL"]

\* the part of the handler after the alignment: df is the aligners' result
Respond(df, ticker, start, end, mode, requested) ==
    IF IsRaised(df) THEN HTTPException(500, df.raised)
    ELSE IF IsEmpty(df) THEN EmptyBody(ticker, start, end, mode)
    ELSE \* if keep_cols: df = df[keep_cols]
         LET shown == {IF KeepCols(df.cols, requested) # <<>>
                       THEN SelectCols(df, KeepCols(df.cols, requested)) ELSE df}
         IN  CHOOSE body \in {TableBody(ticker, start, end, mode, requested, shownDf) :
                                shownDf \in shown} : TRUE

\* (mutant) only the requested datasets are loaded and aligned
Aligned_requested_only(fs, ticker, start, end, mode, include) ==
    CHOOSE body \in
        {Respond(df, ticker, start, end, mode, RequestedDatasets(include)) :
            df \in {IF mode = "sparse" THEN align_to_sparse_ref(sub, start, end)
                    ELSE align(sub, start, end) :
                sub \in {[n \in DOMAIN fs |->
                            IF n \in RequestedDatasets(include) THEN fs[n]
                            ELSE IF n = "executives" THEN NoExecFile ELSE <<>>]}}} : TRUE

\* the part of the handler after the two validations
Aligned(fs, ticker, start, end, mode, include) ==
    CHOOSE body \in
        {Respond(df, ticker, start, end, mode, RequestedDatasets(include)) :
            df \in {IF mode = "sparse" THEN align_to_sparse_ref(fs, start, end)
                    ELSE align(fs, start, end)}} : TRUE

\* (mutant) no range validation
get_aligned_data_no_range_check(fs, req) ==
    LET end   == IF req.end = NoParam THEN Today ELSE req.end[1]
        start == IF req.start = NoParam THEN end - DefaultSpan ELSE req.start[1]
    IN  IF req.mode \notin {"daily", "sparse"}
        THEN [resp  |-> HTTPException(400, "mode must be 'daily' or 'sparse'"),
              loads |-> 0]
        ELSE [resp  |-> Aligned(fs, Upper[req.ticker], start, end, req.mode, req.include),
              loads |-> Len(DATASET_ORDER)]

\* (mutant) no mode validation: an unknown mode falls through to align
get_aligned_data_no_mode_check(fs, req) ==
    LET end   == IF req.end = NoParam THEN Today ELSE req.end[1]
        start == IF req.start = NoParam THEN end - DefaultSpan ELSE req.start[1]
    IN  IF start > end
        THEN [resp  |-> HTTPException(400, "start must be before end"),
              loads |-> 0]
        ELSE [resp  |-> Aligned(fs, Upper[req.ticker], start, end, req.mode, req.include),
              loads |-> Len(DATASET_ORDER)]

\* the handler: the response and the number of loaders it invoked
get_aligned_data(fs, req) ==
    LET end   == IF req.end = NoParam THEN Today ELSE req.end[1]
        start == IF req.start = NoParam THEN end - DefaultSpan ELSE req.start[1]
    IN  IF start > end
        THEN [resp  |-> HTTPException(400, "start must be before end"),
              loads |-> 0]
        ELSE IF req.mode \notin {"daily", "sparse"}
        THEN [resp  |-> HTTPException(400, "mode must be 'daily' or 'sparse'"),
              loads |-> 0]
        ELSE [resp  |-> Aligned(fs, Upper[req.ticker], start, end, req.mode, req.include),
              loads |-> Len(DATASET_ORDER)]

\* ------------------------------------------------------------ cached
\* json.dumps(..., default=str, sort_keys=True): None is rendered as null, a
\* date by str() as its ISO text, a string as itself
Rendered(param) == IF param = NoParam THEN JsonNull ELSE <<"iso", param[1]>>

\* _make_key: the function's qualified name, the positional arguments (the
\* router passes none) and the keyword arguments; the digest of the text is
\* identified with the text
_make_key(req) ==
    [fn     |-> "get_aligned_data",
     args   |-> <<>>,
     kwargs |-> [ticker |-> req.ticker, start |-> Rendered(req.start),
                 end |-> Rendered(req.end), mode |-> req.mode,
                 include |-> req.include]]

\* (mutant) an entry is still served at the instant it expires
Fresh_at_expiry(st, key, t) == key \in DOMAIN st /\ st[key].expires >= t

\* entry = _store.get(key); entry and entry[0] > now
Fresh(st, key, t) == key \in DOMAIN st /\ st[key].expires > t

\* (mutant) whatever the handler ended with is stored, an exception included
Stored_with_errors(r, key, st, t) ==
    [resp |-> r.resp, loads |-> r.loads,
     store |-> (key :> [expires |-> t + TTL, value |-> r.resp]) @@ st]

\* the wrapper after the handler returned or raised r.resp
Stored(r, key, st, t) ==
    IF r.resp.status # 200
    THEN [resp |-> r.resp, loads |-> r.loads, store |-> st]
    ELSE [resp |-> r.resp, loads |-> r.loads,
          store |-> (key :> [expires |-> t + TTL, value |-> r.resp]) @@ st]

\* the wrapper of @cached(ttl): [resp, loads, store]
CachedCall(fs, req, st, t) ==
    IF Fresh(st, _make_key(req), t)
    THEN [resp |-> st[_make_key(req)].value, loads |-> 0, store |-> st]
    ELSE CHOOSE out \in {Stored(r, _make_key(req), st, t) :
                            r \in {get_aligned_data(fs, req)}} : TRUE

NoRequest == [ticker |-> "", start |-> NoParam, end |-> NoParam,
              mode |-> "", include |-> <<>>]
NoResponse == [status |-> 0]

\* the locals of a thread that is not inside the engine
Threads == {1, 2}
NoDatasets == [n \in DatasetNames |-> EmptyFrame]
Outside == [pos |-> "outside", fn |-> "none", entity |-> "", start |-> 0, end |-> 0,
            datasets |-> NoDatasets, aligned |-> EmptyFrame]
NoneRunning == running = [t \in Threads |-> Outside]

\* a call of the cached wrapper that was not made yet
Flights == 1..MaxFlights
NotStarted == [pos |-> "new", req |-> NoRequest, began |-> 0, among |-> {},
               hit |-> FALSE, ran |-> FALSE, value |-> NoResponse]
NoFlights == flights = [c \in Flights |-> NotStarted]

\* the caller keeps no table
NoCall == [fn |-> "none", start |-> 0, end |-> 0]
ClockIdle ==
    /\ wallclock = MaxDay
    /\ kept = [call |-> NoCall, result |-> EmptyFrame]
    /\ NoneRunning
    /\ NoFlights

\* no column was classified
NoCategory == ""
ClassifierIdle ==
    /\ column = "date"
    /\ category = NoCategory

ApiIdle ==
    /\ store = <<>>
    /\ now = 0
    /\ request = NoRequest
    /\ response = NoResponse
    /\ loads = 0
    /\ served = 0

\* ------------------------------------------------------------ initial states
\* Shapes of persisted entries: (day, optional field present)
EntryShapes == Days \X BOOLEAN
ExecShapes  == Days \X BOOLEAN \X BOOLEAN

FilingLists(k) == {[i \in 1..k |-> FilingEntry(i, sh[i])] : sh \in [1..k -> EntryShapes]}
NewsLists(k)   == {[i \in 1..k |-> NewsArticle(i, sh[i])] : sh \in [1..k -> EntryShapes]}

\* derived rows: year-keyed, ascending, one per year
DerivedTables(k) ==
    {[i \in 1..Len(SortedSeq(S)) |-> DerivedRow(<<SortedSeq(S)[i], opt[SortedSeq(S)[i]]>>)] :
        <<S, opt>> \in {<<S, opt>> \in (SUBSET Days) \X [Days -> BOOLEAN] :
                          /\ Cardinality(S) <= k
                          /\ \A d \in Days \ S : opt[d]}}

\* the price CSV: one row per trading day, ascending
PriceTables(k) ==
    {[i \in 1..Len(SortedSeq(S)) |-> PriceRow(SortedSeq(S)[i])] :
        S \in {S \in SUBSET Days : Cardinality(S) <= k}}

ExecFiles(k) ==
    {NoExecFile} \cup (IF k > 0 THEN {ExecFile(sh) : sh \in ExecShapes} ELSE {})

\* the persisted files with at most cap entries in all
Worlds(cap) ==
    {[executives |-> w[1], filings |-> w[2], financials |-> w[3],
      news |-> w[4], prices |-> w[5]] :
        w \in UNION {UNION {UNION {UNION {
            {<<ex, fl, fi, nw, pr>> :
                pr \in PriceTables(cap - Len(ex.executives) - Len(fl) - Len(fi) - Len(nw))} :
            nw \in UNION {NewsLists(k) :
                            k \in 0..(cap - Len(ex.executives) - Len(fl) - Len(fi))}} :
            fi \in DerivedTables(cap - Len(ex.executives) - Len(fl))} :
            fl \in UNION {FilingLists(k) : k \in 0..(cap - Len(ex.executives))}} :
            ex \in ExecFiles(cap)}}

Init ==
    /\ files \in Worlds(MaxEntries)
    /\ pc = "idle"
    /\ call = [fn |-> "none", start |-> 0, end |-> 0]
    /\ result = EmptyFrame
    /\ ApiIdle
    /\ ClassifierIdle
    /\ ClockIdle

\* ------------------------------------------------------------ actions
CallAlign(start, end) ==
    /\ pc = "idle"
    /\ pc' = "returned"
    /\ call' = [fn |-> "align", start |-> start, end |-> end]
    /\ result' = align(files, start, end)
    /\ UNCHANGED <<files, api, classifier, clock, running, flights>>

CallAlignToSparseRef(start, end) ==
    /\ pc = "idle"
    /\ pc' = "returned"
    /\ call' = [fn |-> "align_to_sparse_ref", start |-> start, end |-> end]
    /\ result' = align_to_sparse_ref(files, start, end)
    /\ UNCHANGED <<files, api, classifier, clock, running, flights>>

Return ==
    /\ pc = "returned"
    /\ pc' = "idle"
    /\ call' = [fn |-> "none", start |-> 0, end |-> 0]
    /\ result' = EmptyFrame
    /\ UNCHANGED <<files, api, classifier, clock, running, flights>>

Next ==
    \/ \E start \in Days, end \in Days : CallAlign(start, end)
    \/ \E start \in Days, end \in Days : CallAlignToSparseRef(start, end)
    \/ Return

Spec == Init /\ [][Next]_vars

\* ------------------------------------------------------------ the endpoint's actions
Tickers == {"AAPL", "aapl"}
Modes == {"daily", "sparse", "dense"}
Includes == {DefaultInclude, <<Piece("prices", TRUE)>>, <<Piece("", FALSE)>>}
DateParams == {NoParam} \cup {<<d>> : d \in Days}

\* every combination of the parameters, except that the default one-year
\* range is not requested in daily mode (its table has 366 rows)
Requests ==
    {req \in [ticker : Tickers, start : DateParams, end : DateParams,
              mode : Modes, include : Includes] :
        req.start = NoParam => req.mode # "daily"}

\* GET /api/v1/data/{ticker}: the cached wrapper around get_aligned_data
GetAlignedData(req) ==
    /\ served < MaxCalls
    /\ \E r \in {CachedCall(files, req, store, now)} :
           /\ response' = r.resp
           /\ loads' = r.loads
           /\ store' = r.store
    /\ request' = req
    /\ served' = served + 1
    /\ UNCHANGED <<files, engine, now, classifier, clock, running, flights>>

\* time passes between requests: the clock moves on to a later instant
Instants == {0, 1, TTL - 1, TTL, TTL + MaxSlack}

Tick(t) ==
    /\ t > now
    /\ now' = t
    /\ UNCHANGED <<files, engine, store, request, response, loads, served, classifier, clock, running, flights>>

InitApi ==
    /\ files \in Worlds(MaxApiEntries)
    /\ pc = "idle"
    /\ call = [fn |-> "none", start |-> 0, end |-> 0]
    /\ result = EmptyFrame
    /\ ApiIdle
    /\ ClassifierIdle
    /\ ClockIdle

NextApi ==
    \/ \E req \in Requests : GetAlignedData(req)
    \/ \E t \in Instants : Tick(t)

SpecApi == InitApi /\ [][NextApi]_vars

\* ------------------------------------------------------------ the classifier alone
ColumnNames == DOMAIN Spelling

\* _dataset_for_col(column) is called
Classify ==
    /\ category = NoCategory
    /\ category' = _dataset_for_col(column)
    /\ UNCHANGED <<files, engine, api, column, clock, running, flights>>

\* the next column of the table is taken up
NextColumn(c) ==
    /\ category # NoCategory
    /\ column' = c
    /\ category' = NoCategory
    /\ UNCHANGED <<files, engine, api, clock, running, flights>>

InitCols ==
    /\ files = [executives |-> NoExecFile, filings |-> <<>>, financials |-> <<>>,
                news |-> <<>>, prices |-> <<>>]
    /\ pc = "idle"
    /\ call = [fn |-> "none", start |-> 0, end |-> 0]
    /\ result = EmptyFrame
    /\ ApiIdle
    /\ column \in ColumnNames
    /\ category = NoCategory
    /\ ClockIdle

NextCols ==
    \/ Classify
    \/ \E c \in ColumnNames : NextColumn(c)

SpecCols == InitCols /\ [][NextCols]_vars

\* ------------------------------------------------------------ repeated calls
\* the caller keeps the table a call returned
Keep ==
    /\ pc = "returned"
    /\ kept.call = NoCall
    /\ kept' = [call |-> call, result |-> result]
    /\ pc' = "idle"
    /\ call' = NoCall
    /\ result' = EmptyFrame
    /\ UNCHANGED <<files, api, classifier, wallclock, running, flights>>

\* midnight: the wall clock moves on to the next day
DayPasses ==
    /\ wallclock < MaxDay
    /\ wallclock' = wallclock + 1
    /\ UNCHANGED <<files, engine, api, classifier, kept, running, flights>>

\* the persisted files: as the pipelines write them, or a p4 file without
\* its fetched_at
InitRepeat ==
    /\ files \in Worlds(MaxApiEntries) \cup
                 {[executives |-> UnstampedExecFile(sh), filings |-> <<>>,
                   financials |-> <<>>, news |-> <<>>, prices |-> <<>>] :
                     sh \in ExecShapes}
    /\ pc = "idle"
    /\ call = NoCall
    /\ result = EmptyFrame
    /\ ApiIdle
    /\ ClassifierIdle
    /\ wallclock = 0
    /\ kept = [call |-> NoCall, result |-> EmptyFrame]
    /\ NoneRunning
    /\ NoFlights

NextRepeat ==
    \/ \E start \in Days, end \in Days : CallAlign(start, end)
    \/ \E start \in Days, end \in Days : CallAlignToSparseRef(start, end)
    \/ Return
    \/ Keep
    \/ DayPasses

SpecRepeat == InitRepeat /\ [][NextRepeat]_vars

\* ------------------------------------------------------------ malformed files
\* each persisted file is absent, well-formed, unparseable, or well-formed up
\* to an entry that cannot be parsed
FileStates(good) == {<<>>, <<good>>, <<Bad>>, <<good, Bad>>}

InitMalformed ==
    /\ files \in
          {w \in [executives : {NoExecFile, ExecFile(<<0, TRUE, TRUE>>), Bad},
                  filings    : FileStates(FilingEntry(1, <<0, TRUE>>)),
                  financials : FileStates(DerivedRow(<<0, TRUE>>)),
                  news       : FileStates(NewsArticle(1, <<1, TRUE>>)),
                  prices     : FileStates(PriceRow(1))] :
              \/ IsBad(w.executives)
              \/ \E n \in {"filings", "financials", "news", "prices"} : HasBad(w[n])}
    /\ pc = "idle"
    /\ call = NoCall
    /\ result = EmptyFrame
    /\ ApiIdle
    /\ ClassifierIdle
    /\ ClockIdle

SpecMalformed == InitMalformed /\ [][Next]_vars

\* ------------------------------------------------------------ colliding columns
\* the derived table of the financials file is keyed by whatever the file
\* holds: here the revenue columns and possibly keys named like the columns
\* of the news dataset
InitCollide ==
    /\ files \in
          [executives : {NoExecFile, ExecFile(<<1, TRUE, TRUE>>)},
           filings    : {<<>>, <<FilingEntry(1, <<0, TRUE>>)>>},
           financials : {<<DerivedRowWith(<<d, TRUE>>, keys)>> :
                            d \in Days, keys \in SUBSET {"news_url", "news_url_news"}},
           news       : {<<>>} \cup {<<NewsArticle(1, <<d, TRUE>>)>> : d \in Days},
           prices     : {<<>>, <<PriceRow(0)>>}]
    /\ pc = "idle"
    /\ call = NoCall
    /\ result = EmptyFrame
    /\ ApiIdle
    /\ ClassifierIdle
    /\ ClockIdle

SpecCollide == InitCollide /\ [][Next]_vars

\* ------------------------------------------------------------ concurrent calls
\* the persisted files of a second ticker
OtherFiles ==
    [executives |-> NoExecFile, filings |-> <<FilingEntry(1, <<1, TRUE>>)>>,
     financials |-> <<>>, news |-> <<>>, prices |-> <<PriceRow(0)>>]
Entities == {"AAPL", "MSFT"}
\* PROC_DIR / f"{ticker}_...": each ticker has its own files
FilesOf(entity) == IF entity = "AAPL" THEN files ELSE OtherFiles

\* (mutant) the loaded datasets sit in a module-level dict that calls share:
\* a call takes what another call in progress has loaded
datasets_shared(t, run) ==
    IF \E u \in Threads \ {t} : run[u].pos \in {"loaded", "returned"}
    THEN run[CHOOSE u \in Threads \ {t} : run[u].pos \in {"loaded", "returned"}].datasets
    ELSE LoadAll(FilesOf(run[t].entity))

\* the datasets dict of call t: a local, built from the ticker's own files
datasets_for(t, run) == LoadAll(FilesOf(run[t].entity))

\* thread t calls align or align_to_sparse_ref on a valid range
Enter(t, fn, entity, start, end) ==
    /\ running[t].pos = "outside"
    /\ start <= end
    /\ running' = [running EXCEPT ![t] =
          [pos |-> "entered", fn |-> fn, entity |-> entity, start |-> start,
           end |-> end, datasets |-> NoDatasets, aligned |-> EmptyFrame]]
    /\ UNCHANGED <<files, engine, api, classifier, wallclock, kept, flights>>

\* the five loaders run
LoadDatasets(t) ==
    /\ running[t].pos = "entered"
    /\ running' = [running EXCEPT ![t].pos = "loaded",
                                  ![t].datasets = datasets_for(t, running)]
    /\ UNCHANGED <<files, engine, api, classifier, wallclock, kept, flights>>

\* the join loop runs on the call's own tables; reindex, ffill, join and loc
\* return new tables and leave the loaded ones as they are
JoinDatasets(t) ==
    /\ running[t].pos = "loaded"
    /\ running' = [running EXCEPT ![t].pos = "returned",
          ![t].aligned =
              IF running[t].fn = "align"
              THEN align_datasets(running[t].datasets, running[t].start, running[t].end)
              ELSE align_to_sparse_ref_datasets(running[t].datasets,
                                                running[t].start, running[t].end)]
    /\ UNCHANGED <<files, engine, api, classifier, wallclock, kept, flights>>

\* the call returns and its locals are gone
Leave(t) ==
    /\ running[t].pos = "returned"
    /\ running' = [running EXCEPT ![t] = Outside]
    /\ UNCHANGED <<files, engine, api, classifier, wallclock, kept, flights>>

InitInterleave ==
    /\ files \in Worlds(MaxApiEntries)
    /\ pc = "idle"
    /\ call = NoCall
    /\ result = EmptyFrame
    /\ ApiIdle
    /\ ClassifierIdle
    /\ ClockIdle

NextInterleave ==
    \/ \E t \in Threads, fn \in {"align", "align_to_sparse_ref"}, entity \in Entities,
          start \in Days, end \in Days :
            Enter(t, fn, entity, start, end)
    \/ \E t \in Threads : LoadDatasets(t)
    \/ \E t \in Threads : JoinDatasets(t)
    \/ \E t \in Threads : Leave(t)

SpecInterleave == InitInterleave /\ [][NextInterleave]_vars

\* ------------------------------------------------------------ overlapping requests
\* GET requests that reach the cached wrapper at about the same time: the same
\* arguments, other arguments, a reversed range, an unknown mode
CacheRequests ==
    {[ticker |-> "AAPL", start |-> <<0>>, end |-> <<1>>, mode |-> "daily",
      include |-> DefaultInclude],
     [ticker |-> "AAPL", start |-> <<0>>, end |-> <<1>>, mode |-> "daily",
      include |-> <<Piece("filings", FALSE)>>],
     [ticker |-> "AAPL", start |-> <<1>>, end |-> <<0>>, mode |-> "daily",
      include |-> DefaultInclude],
     [ticker |-> "AAPL", start |-> <<0>>, end |-> <<1>>, mode |-> "dense",
      include |-> DefaultInclude]}

\* the persisted files between two runs of the ingestion: prices of day 0,
\* prices of day 0 and day 1, a price file that cannot be parsed
CacheWorlds ==
    {[NothingStored EXCEPT !.prices = <<PriceRow(0)>>],
     [NothingStored EXCEPT !.prices = <<PriceRow(0), PriceRow(1)>>],
     [NothingStored EXCEPT !.prices = <<Bad>>]}

InFlight(c) == flights[c].pos \in {"awaiting", "returned"}

\* wrapper, up to the first suspension point: key and now are taken, the
\* entry is looked up under the lock (the block holds no await, so no other
\* call runs inside it) and a fresh entry is returned at once
Begin(c, req) ==
    /\ flights[c].pos = "new"
    /\ \A b \in 1..(c - 1) : flights[b].pos # "new"
    /\ flights' = [flights EXCEPT ![c] =
          IF Fresh(store, _make_key(req), now)
          THEN [pos |-> "done", req |-> req, began |-> now,
                among |-> {b \in Flights : InFlight(b)},
                hit |-> TRUE, ran |-> FALSE, value |-> store[_make_key(req)].value]
          ELSE [pos |-> "awaiting", req |-> req, began |-> now,
                among |-> {b \in Flights : InFlight(b)},
                hit |-> FALSE, ran |-> FALSE, value |-> NoResponse]]
    /\ UNCHANGED <<files, engine, api, classifier, clock, running>>

\* result = await fn(*args, **kwargs): the await is where the event loop may
\* run other calls of the wrapper, before the handler reads the files and
\* after it has built its result.  Here the handler runs on the files as they
\* are now; an exception leaves the wrapper at this line
Await(c) ==
    /\ flights[c].pos = "awaiting"
    /\ \E r \in {get_aligned_data(files, flights[c].req)} :
          IF r.resp.status # 200
          THEN /\ flights' = [flights EXCEPT ![c].pos = "done", ![c].ran = TRUE,
                                             ![c].value = r.resp]
               /\ store' = Stored(r, _make_key(flights[c].req), store,
                                  flights[c].began).store
          ELSE /\ flights' = [flights EXCEPT ![c].pos = "returned", ![c].ran = TRUE,
                                             ![c].value = r.resp]
               /\ store' = store
    /\ UNCHANGED <<files, engine, now, request, response, loads, served,
                   classifier, clock, running>>

\* the call resumes: async with _lock: _store[key] = (now + ttl, result);
\* return result
Store(c) ==
    /\ flights[c].pos = "returned"
    /\ store' = Stored([resp |-> flights[c].value, loads |-> 0],
                       _make_key(flights[c].req), store, flights[c].began).store
    /\ flights' = [flights EXCEPT ![c].pos = "done"]
    /\ UNCHANGED <<files, engine, now, request, response, loads, served,
                   classifier, clock, running>>

\* a run of the ingestion rewrites the persisted files
Reingest(w) ==
    /\ w # files
    /\ files' = w
    /\ UNCHANGED <<engine, api, classifier, clock, running, flights>>

InitCache ==
    /\ files \in CacheWorlds
    /\ pc = "idle"
    /\ call = NoCall
    /\ result = EmptyFrame
    /\ ApiIdle
    /\ ClassifierIdle
    /\ ClockIdle

NextCache ==
    \/ \E c \in Flights, req \in CacheRequests : Begin(c, req)
    \/ \E c \in Flights : Await(c)
    \/ \E c \in Flights : Store(c)
    \/ \E t \in Instants : Tick(t)
    \/ \E w \in CacheWorlds : Reingest(w)

SpecCache == InitCache /\ [][NextCache]_vars

\* ============================================================ properties
Loaded == LoadAll(files)

\* the dataset whose loader produced column c
Origin(c) == CHOOSE n \in DatasetNames : c \in ColSet(Loaded[n])

Returned(fn) == pc = "returned" /\ call.fn = fn
Engine == pc = "returned" /\ call.fn \in {"align", "align_to_sparse_ref"}

RowIdx(df) == 1..Len(df.rows)
DatesUpTo(df, t) == {df.rows[i].date : i \in {j \in RowIdx(df) : df.rows[j].date <= t}}
\* the record of a loaded dataset at day d (timestamps are unique per dataset)
RecordAt(df, d) == df.rows[CHOOSE i \in RowIdx(df) : df.rows[i].date = d].v
\* field c of the record at the latest timestamp <= t, Null if there is none
LatestRecordField(df, c, t) ==
    IF DatesUpTo(df, t) = {} THEN Null ELSE RecordAt(df, SetMax(DatesUpTo(df, t)))[c]
\* the latest non-null value of field c at a timestamp <= t, Null if there is none
LastKnown(df, c, t) ==
    LET known == {d \in DatesUpTo(df, t) : RecordAt(df, d)[c] # Null}
    IN  IF known = {} THEN Null ELSE RecordAt(df, SetMax(known))[c]
NoNullField(df) == \A i \in RowIdx(df) : \A c \in ColSet(df) : df.rows[i].v[c] # Null

\* C1 -- No fabrication: in both modes, for start <= end, every non-null cell
\* at row date T and column c equals the value of field c in a record of c's
\* source dataset dated at or before T.
C1_NoFabrication ==
    (Engine /\ call.start <= call.end) =>
        \A k \in RowIdx(result) : \A c \in ColSet(result) :
            result.rows[k].v[c] # Null =>
                \E i \in RowIdx(Loaded[Origin(c)]) :
                    /\ Loaded[Origin(c)].rows[i].date <= result.rows[k].date
                    /\ Loaded[Origin(c)].rows[i].v[c] = result.rows[k].v[c]

\* a cell carried forward from a record dated strictly before its row, while
\* the same dataset also has a record dated strictly after the row
C1_Witness ==
    /\ Engine /\ call.start <= call.end
    /\ \E k \in RowIdx(result) : \E c \in ColSet(result) :
          /\ result.rows[k].v[c] # Null
          /\ result.rows[k].date \notin DateSet(Loaded[Origin(c)])
          /\ \E i \in RowIdx(Loaded[Origin(c)]) :
                Loaded[Origin(c)].rows[i].date > result.rows[k].date

\* C2 -- Dense forward-fill looks back before start: in dense mode every day T
\* of [start, end] holds, for every non-empty dataset, the values of the
\* dataset's record at the latest timestamp <= T, also when that timestamp is
\* before start; a cell is null only when T is before the first timestamp.
\* (Stated for datasets whose records have no null field.)
C2_DenseLooksBack ==
    (Returned("align") /\ call.start <= call.end) =>
        \A n \in DatasetNames :
            (~IsEmpty(Loaded[n]) /\ NoNullField(Loaded[n])) =>
                \A k \in RowIdx(result) : \A c \in ColSet(Loaded[n]) :
                    result.rows[k].v[c] =
                        LatestRecordField(Loaded[n], c, result.rows[k].date)

ExpectedRef ==
    IF ~IsEmpty(Loaded["executives"]) THEN "executives"
    ELSE IF ~IsEmpty(Loaded["filings"]) THEN "filings"
    ELSE IF ~IsEmpty(Loaded["financials"]) THEN "financials"
    ELSE IF ~IsEmpty(Loaded["news"]) THEN "news"
    ELSE IF ~IsEmpty(Loaded["prices"]) THEN "prices"
    ELSE "none"

RefDatesInRange ==
    IF ExpectedRef = "none" THEN {}
    ELSE {d \in DateSet(Loaded[ExpectedRef]) : call.start <= d /\ d <= call.end}

\* C4 -- Sparse anchoring: the sparse row dates are exactly the reference
\* timestamps inside [start, end], one row each.
C4_SparseAnchoring ==
    Returned("align_to_sparse_ref") =>
        /\ DateSet(result) = RefDatesInRange
        /\ Len(result.rows) = Cardinality(RefDatesInRange)

\* the reference has a point inside and a point outside the range, and another
\* dataset has a point inside the range on a day the reference lacks
C4_Witness ==
    /\ Returned("align_to_sparse_ref")
    /\ Len(result.rows) >= 1
    /\ DateSet(Loaded[ExpectedRef]) \ RefDatesInRange # {}
    /\ \E n \in DatasetNames \ {ExpectedRef} : \E d \in DateSet(Loaded[n]) :
          call.start <= d /\ d <= call.end /\ d \notin DateSet(Loaded[ExpectedRef])

\* C5 -- Reference selection: the sparse table is anchored to the first
\* non-empty dataset of the fixed order, whatever the point counts and range:
\* its columns lead the table and its dates in range are the rows.
C5_ReferenceSelection ==
    (Returned("align_to_sparse_ref") /\ ExpectedRef # "none") =>
        IF RefDatesInRange = {} THEN IsEmpty(result)
        ELSE /\ SubSeq(result.cols, 1, Len(Loaded[ExpectedRef].cols))
                    = Loaded[ExpectedRef].cols
             /\ DateSet(result) = RefDatesInRange

\* the reference has more points than another non-empty dataset
C5_Witness ==
    /\ Returned("align_to_sparse_ref") /\ ~IsEmpty(result)
    /\ \E n \in DatasetNames \ {ExpectedRef} :
          /\ ~IsEmpty(Loaded[n])
          /\ Len(Loaded[n].rows) < Len(Loaded[ExpectedRef].rows)

Answered == served > 0
\* the range of a request after the defaults are applied
EndOf(req) == IF req.end = NoParam THEN Today ELSE req.end[1]
StartOf(req) == IF req.start = NoParam THEN EndOf(req) - DefaultSpan ELSE req.start[1]
IsTable(resp) == "rows" \in DOMAIN resp
HasData == \E n \in DatasetNames : ~IsEmpty(Loaded[n])
\* the persisted state of a ticker that was never ingested
NothingIngested ==
    [executives |-> NoExecFile, filings |-> <<>>, financials |-> <<>>,
     news |-> <<>>, prices |-> <<>>]

\* C8 -- Empty with reason: an empty result tells "no dataset has any data"
\* from "data exists but the range excludes all points": when data exists,
\* the reason returned with an empty table differs from the one the same
\* request gets for a ticker without any data.
C8_EmptyWithReason ==
    (Answered /\ IsTable(response) /\ response.row_count = 0 /\ HasData) =>
        response.meta # get_aligned_data(NothingIngested, request).resp.meta

\* C9 -- Range validation: a request with start > end gets the invalid-range
\* error, no loader is invoked, no table is returned and the cache keeps its
\* content; a request with start = end is not rejected for its range.
C9_RangeValidation ==
    [][served' # served =>
        /\ StartOf(request') > EndOf(request') =>
              /\ response' = HTTPException(400, "start must be before end")
              /\ loads' = 0
              /\ ~IsTable(response')
              /\ store' = store
        /\ (StartOf(request') = EndOf(request') /\ request'.mode \in {"daily", "sparse"}) =>
              IsTable(response')]_vars

\* a rejected request with start > end for a ticker that has data
C9_Witness ==
    /\ Answered /\ HasData
    /\ StartOf(request) > EndOf(request)
    /\ request.mode \in {"daily", "sparse"}
    /\ response.status = 400 /\ loads = 0 /\ store = <<>>

AlignedFor(req) ==
    IF req.mode = "sparse" THEN align_to_sparse_ref(files, StartOf(req), EndOf(req))
    ELSE align(files, StartOf(req), EndOf(req))
ResponseKeys(resp) == {resp.columns[i].key : i \in 1..Len(resp.columns)}
ResponseDates(resp) == [k \in 1..Len(resp.rows) |-> resp.rows[k].date]

\* C11 -- Category filter: in every non-empty table returned, each column is
\* classified in a requested category or as "other", and every "other" column
\* of the aligned table is returned; also when no column of the table belongs
\* to a requested category.
C11_CategoryFilter ==
    (Answered /\ IsTable(response) /\ response.row_count > 0) =>
        /\ \A i \in 1..Len(response.columns) :
              response.columns[i].dataset \in
                  RequestedDatasets(request.include) \cup {"other"}
        /\ \A c \in ColSet(AlignedFor(request)) :
              _dataset_for_col(c) = "other" => c \in ResponseKeys(response)

DeclaredOrder == <<"prices", "financials", "filings", "news", "executives">>
Matches(i, c) == \E p \in COL_PREFIXES[i].prefixes : StartsWith(c, p)

\* C13 -- Column classification: a name in the override table gets its
\* override; otherwise the category is the first one of prices, financials,
\* filings, news, executives that has a prefix the name starts with, and
\* "other" if there is none.
C13_Classification ==
    category # NoCategory =>
        IF column \in DOMAIN COL_EXPLICIT THEN category = COL_EXPLICIT[column]
        ELSE IF \E i \in 1..Len(DeclaredOrder) : Matches(i, column)
        THEN \E i \in 1..Len(DeclaredOrder) :
                /\ Matches(i, column)
                /\ \A j \in 1..(i - 1) : ~Matches(j, column)
                /\ category = DeclaredOrder[i]
        ELSE category = "other"

\* a name that holds a declared prefix, but not at its start, is unclassified
C13_Witness ==
    /\ category = "other"
    /\ \E i \in 1..Len(COL_PREFIXES) : \E p \in COL_PREFIXES[i].prefixes :
          Contains(column, p) /\ ~StartsWith(column, p)

\* ------------------------------------------------------------ serialisation
\* C14 -- NaN normalisation: no cell of a response row is the NaN / None
\* marker of a table; a cell is JSON null exactly when the cell of the aligned
\* table at that row and column is missing, and otherwise it is that cell's
\* value.
C14_NaNNormalization ==
    (Answered /\ IsTable(response)) =>
        \E table \in {AlignedFor(request)} :
            \A k \in 1..Len(response.rows) : \A c \in DOMAIN response.rows[k].v :
                /\ response.rows[k].v[c] # Null
                /\ response.rows[k].date = table.rows[k].date
                /\ IF table.rows[k].v[c] = Null
                   THEN response.rows[k].v[c] = JsonNull
                   ELSE response.rows[k].v[c] = table.rows[k].v[c]

\* a response row with a missing cell next to a cell that has a value
C14_Witness ==
    /\ Answered /\ IsTable(response)
    /\ \E table \in {AlignedFor(request)} : \E k \in 1..Len(response.rows) :
          /\ \E c \in DOMAIN response.rows[k].v :
                /\ table.rows[k].v[c] = Null
                /\ response.rows[k].v[c] = JsonNull
          /\ \E c \in DOMAIN response.rows[k].v :
                response.rows[k].v[c] \notin {Null, JsonNull}

Malformed(n) == IF n = "executives" THEN IsBad(files[n]) ELSE HasBad(files[n])

\* C16 -- Malformed data is surfaced: when the persisted data of any of the
\* five datasets is malformed, the alignment call ends with an error for its
\* caller and returns no table.
C16_MalformedSurfaced ==
    (Engine /\ \E n \in DatasetNames : Malformed(n)) => IsRaised(result)

\* ------------------------------------------------------------ the loaded series
StrictlyIncreasing(df) ==
    \A i \in 1..(Len(df.rows) - 1) : df.rows[i].date < df.rows[i + 1].date
\* the position of the last entry of a list file dated like entry i
LastLike(dates, i) == SetMax({j \in 1..Len(dates) : dates[j] = dates[i]})

\* C17 -- Series invariant: every dataset the loaders hand to the aligners has
\* unique timestamps in strictly increasing row order, and of several source
\* records of one day exactly the last one in source order is kept.
C17_SeriesInvariant ==
    /\ \A n \in DatasetNames : StrictlyIncreasing(Loaded[n])
    /\ \A i \in 1..Len(files.filings) :
          \E dates \in {[j \in 1..Len(files.filings) |->
                            Normalize(files.filings[j].filed_date)]} :
             /\ Cardinality({k \in RowIdx(Loaded["filings"]) :
                                Loaded["filings"].rows[k].date = dates[i]}) = 1
             /\ RecordAt(Loaded["filings"], dates[i]).filing_url =
                    files.filings[LastLike(dates, i)].filing_url
    /\ \A i \in 1..Len(files.news) :
          \E dates \in {[j \in 1..Len(files.news) |->
                            Normalize(files.news[j].published_at)]} :
             /\ Cardinality({k \in RowIdx(Loaded["news"]) :
                                Loaded["news"].rows[k].date = dates[i]}) = 1
             /\ RecordAt(Loaded["news"], dates[i]).news_url =
                    files.news[LastLike(dates, i)].url

\* ------------------------------------------------------------ colliding columns
\* the datasets in the order the sparse aligner joins them: the reference
\* first, then the other non-empty ones in dict order
JoinOrder ==
    LET Later(n) == n # ExpectedRef /\ ~IsEmpty(Loaded[n])
    IN  <<ExpectedRef>> \o SelectSeq(DATASET_ORDER, Later)
\* field c of the i-th joined dataset collides with an earlier-joined one
Collides(i, c) == \E j \in 1..(i - 1) : c \in ColSet(Loaded[JoinOrder[j]])
FinalName(i, c) == IF Collides(i, c) THEN c \o "_" \o JoinOrder[i] ELSE c

WithinRange(n) ==
    /\ ~IsEmpty(Loaded[n])
    /\ \A d \in DateSet(Loaded[n]) : call.start <= d /\ d <= call.end
\* the timestamp of the record of dataset n that carries value val in field c
SourceDate(n, c, val) ==
    Loaded[n].rows[CHOOSE i \in RowIdx(Loaded[n]) : Loaded[n].rows[i].v[c] = val].date
\* down the rows in date order, the values of column c come from timestamps
\* that never decrease and never exceed the row date
SourceMonotonic(n, c) ==
    \A k1 \in RowIdx(result) : \A k2 \in RowIdx(result) :
        (result.rows[k1].v[c] # Null /\ result.rows[k2].v[c] # Null
            /\ result.rows[k1].date <= result.rows[k2].date) =>
            /\ SourceDate(n, c, result.rows[k1].v[c])
                  <= SourceDate(n, c, result.rows[k2].v[c])
            /\ SourceDate(n, c, result.rows[k2].v[c]) <= result.rows[k2].date

Alone(r) ==
    IF r.fn = "align" THEN align(FilesOf(r.entity), r.start, r.end)
    ELSE align_to_sparse_ref(FilesOf(r.entity), r.start, r.end)

OthersInRange ==
    \E n \in DatasetNames \ {ExpectedRef} : \E d \in DateSet(Loaded[n]) :
        call.start <= d /\ d <= call.end

\* C21 -- No reference fallback: in sparse mode, when the reference (the first
\* non-empty dataset of the sparsity order) has no point inside [start, end],
\* the result is the empty table, with no row and no column, also when other
\* non-empty datasets have points inside the range.
C21_NoReferenceFallback ==
    (/\ Returned("align_to_sparse_ref")
     /\ ExpectedRef # "none"
     /\ RefDatesInRange = {}) =>
        /\ result = EmptyFrame
        /\ OthersInRange => (Len(result.rows) = 0 /\ Len(result.cols) = 0)

\* the reference has points, none of them in a valid range, while a dataset
\* later in the order has a point in it: the call returned the empty table
C21_Witness ==
    /\ Returned("align_to_sparse_ref")
    /\ call.start <= call.end
    /\ ExpectedRef # "none"
    /\ RefDatesInRange = {}
    /\ OthersInRange
    /\ result = EmptyFrame

\* ------------------------------------------------------------ the response cache
KeyOf(c) == _make_key(flights[c].req)
\* call c enters the wrapper in this step
Begins(c) == flights[c].pos = "new" /\ flights'[c].pos # "new"
\* the handler raised in call c in this step
Raises(c) == flights[c].pos = "awaiting" /\ flights'[c].pos = "done"

\* C22 -- Response cache freshness: a call is answered from the store without
\* running the handler only if the store holds an entry under the call's key
\* whose expiry is strictly later than the time the call read; that entry was
\* written by a call with the same arguments that ran the handler, holds that
\* call's result, and expires ttl after that call began, so the serving call
\* began less than ttl after it.
C22_CacheFreshness ==
    [][\A c \in Flights : Begins(c) =>
          /\ flights'[c].began = now
          /\ flights'[c].hit =>
                /\ flights'[c].pos = "done" /\ ~flights'[c].ran
                /\ _make_key(flights'[c].req) \in DOMAIN store
                /\ store[_make_key(flights'[c].req)].expires > now
                /\ flights'[c].value = store[_make_key(flights'[c].req)].value
                /\ \E p \in Flights \ {c} :
                      /\ flights[p].pos = "done" /\ flights[p].ran
                      /\ flights[p].req = flights'[c].req
                      /\ flights[p].value = flights'[c].value
                      /\ store[_make_key(flights'[c].req)].expires = flights[p].began + TTL
                      /\ now < flights[p].began + TTL]_vars

\* a call made one second before the entry expires is answered from the
\* store, with a body the handler would no longer produce from the files
C22_Witness ==
    /\ flights[2].hit /\ flights[2].pos = "done"
    /\ flights[2].began = flights[1].began + TTL - 1
    /\ flights[1].ran /\ flights[1].req = flights[2].req
    /\ flights[2].value # get_aligned_data(files, flights[2].req).resp

Writers(fl, k) ==
    {c \in Flights : /\ fl[c].pos = "done" /\ fl[c].ran
                     /\ fl[c].value.status = 200
                     /\ _make_key(fl[c].req) = k}

C25_ErrorsNotCached ==
    [][/\ \A c \in Flights :
             /\ Raises(c) =>
                   /\ store' = store
                   /\ flights'[c].value.status \in {400, 500}
                   /\ flights'[c].value = get_aligned_data(files, flights[c].req).resp
             /\ Begins(c) =>
                   /\ flights'[c].hit => flights'[c].value.status = 200
                   /\ (/\ _make_key(flights'[c].req) \notin DOMAIN store
                       /\ \E p \in Flights : /\ flights[p].pos = "done"
                                              /\ flights[p].req = flights'[c].req
                                              /\ flights[p].value.status # 200) =>
                         flights'[c].pos = "awaiting"
       /\ \A k \in DOMAIN store' : store'[k].value.status = 200]_vars

\* the handler raised HTTP 500 for a call, and the next call with the same
\* arguments ran the handler again and got a body from the rewritten files
C25_Witness ==
    /\ flights[1].pos = "done" /\ flights[1].ran /\ flights[1].value.status = 500
    /\ flights[2].pos = "done" /\ flights[2].ran /\ flights[2].value.status = 200
    /\ flights[2].req = flights[1].req
    /\ flights[2].began = flights[1].began
    /\ DOMAIN store = {KeyOf(2)}

\* ------------------------------------------------------------ the two modes
\* the row of a table at day d
RowAt(df, d) == df.rows[CHOOSE k \in RowIdx(df) : df.rows[k].date = d].v

\* C26 -- Dense/sparse agreement: for the same data and range, every row
\* date of the sparse table is a row date of the dense table, and on every
\* date and column the two tables share the cells are equal.
C26_DenseSparseAgreement ==
    (Returned("align") /\ call.start <= call.end) =>
        \E sparse \in {align_to_sparse_ref(files, call.start, call.end)} :
            /\ DateSet(sparse) \subseteq DateSet(result)
            /\ \A d \in DateSet(sparse) \cap DateSet(result) :
               \A c \in ColSet(sparse) \cap ColSet(result) :
                  RowAt(sparse, d)[c] = RowAt(result, d)[c]

\* ------------------------------------------------------------ row coherence
\* the cells of output row k that come from dataset n
CellsOf(n, k) == [c \in ColSet(Loaded[n]) |-> result.rows[k].v[c]]

\* C27 -- Row coherence: in both modes, the cells of one output
\* row that come from one dataset are the fields of one and the same record,
\* the dataset's record at its latest timestamp <= the row date, also when
\* records have null fields.
C27_RowCoherence ==
    (Engine /\ call.start <= call.end) =>
        \A n \in DatasetNames : ~IsEmpty(Loaded[n]) =>
            \A k \in RowIdx(result) :
                \E seen \in {DatesUpTo(Loaded[n], result.rows[k].date)} :
                    seen # {} => CellsOf(n, k) = RecordAt(Loaded[n], SetMax(seen))

\* ------------------------------------------------------------ sparse row order
\* C28 -- Sparse row order: the rows of a sparse table are in strictly
\* increasing date order, without duplicate dates, whatever dataset is the
\* reference and whatever the order of its persisted records.
C28_SparseRowOrder ==
    Returned("align_to_sparse_ref") =>
        /\ StrictlyIncreasing(result)
        /\ \A i \in RowIdx(result) : \A j \in RowIdx(result) :
              result.rows[i].date = result.rows[j].date => i = j

====
